---- MODULE Spec2Model ----
(***************************************************************************)
(* The GraphQL relay of attached_assets/graphql (1).py: one Flask route,   *)
(* graphql_query, that takes `query` out of the inbound JSON body, POSTs   *)
(* {"query": query} to the fixed graphql_url with timeout=60 and maps the  *)
(* outcome to a (body, status) pair.                                       *)
(*                                                                         *)
(* Several requests are in flight at once (the hosting runtime runs one    *)
(* handler invocation per request); each invocation has its own locals     *)
(* (query, response, e), the module has one global (graphql_url).          *)
(* The handler is cut at the points where it can block or raise: line 13,  *)
(* line 16 (the call is issued, then the upstream and the clock act),      *)
(* lines 19-23 and lines 24-25.                                            *)
(***************************************************************************)
EXTENDS Integers, Sequences, FiniteSets, TLC

VARIABLES graphql_url, pc, body, query, sent, idle, response, e, result

vars == <<graphql_url, pc, body, query, sent, idle, response, e, result>>

\* ---------------------------------------------------------------- bounds
\* Number of inbound requests handled concurrently.
NumRequests == 2
\* Seconds the clock advances in one Tick.
Quantum == 10
\* Number of requests followed under the fairness conditions of FairSpec.
NumObserved == 1

Requests == 1..NumRequests
Observed == 1..NumObserved

\* ------------------------------------------------------ program constants
\* line 7: the module-level URL.
URL ==
  "https://gateway-arbitrum.network.thegraph.com/api/7ad5dec0c95579e6812957254486d013/subgraphs/id/HUZDsRpEVP2AvzDCyzDHtdc64dyDxx8FQjzsmqSg4H3B"
\* line 16: timeout=60.
TIMEOUT == 60
\* line 19: the status that selects the passthrough branch.
OK == 200
\* lines 23, 25: the status of both error returns.
SERVER_ERROR == 500

\* ------------------------------------------------------------ JSON values
\* JSON values as they travel on the wire.
JNull == [t |-> "null"]
JStr(s) == [t |-> "string", v |-> s]
JArr(s) == [t |-> "array", v |-> s]
JObj(m) == [t |-> "object", v |-> m]

\* Python values as the handler holds them.
PyNone == [t |-> "None"]
PyStr(s) == [t |-> "str", v |-> s]
PyList(s) == [t |-> "list", v |-> s]
PyDict(m) == [t |-> "dict", v |-> m]

\* A wire body: text that parses to a JSON value, or text that does not.
Text(j) == [kind |-> "json", value |-> j]
Garbage == [kind |-> "garbage"]

\* json.loads on a parsed JSON value: null -> None, string -> str,
\* array -> list, object -> dict, recursively.
RECURSIVE loads(_)
loads(j) ==
  CASE j.t = "null" -> PyNone
    [] j.t = "string" -> PyStr(j.v)
    [] j.t = "array" -> PyList([i \in DOMAIN j.v |-> loads(j.v[i])])
    [] j.t = "object" -> PyDict([k \in DOMAIN j.v |-> loads(j.v[k])])

\* json.dumps as a JSON value: None -> null, str -> string, list -> array,
\* dict -> object, recursively.
RECURSIVE dumps(_)
dumps(p) ==
  CASE p.t = "None" -> JNull
    [] p.t = "str" -> JStr(p.v)
    [] p.t = "list" -> JArr([i \in DOMAIN p.v |-> dumps(p.v[i])])
    [] p.t = "dict" -> JObj([k \in DOMAIN p.v |-> dumps(p.v[k])])

\* A one-entry mapping, and the union of two mappings with disjoint keys.
Entry(k, x) == [i \in {k} |-> x]
Merge(f, g) == [k \in DOMAIN f \cup DOMAIN g |-> IF k \in DOMAIN f THEN f[k] ELSE g[k]]

\* ------------------------------------------------------------ exceptions
Exc(type, msg) == [type |-> type, msg |-> msg]
\* str(e)
str(x) == x.msg

BadRequest == Exc("BadRequest", "400 Bad Request: Failed to decode JSON object")
AttributeError(p) ==
  Exc("AttributeError",
      CASE p.t = "None" -> "'NoneType' object has no attribute 'get'"
        [] p.t = "list" -> "'list' object has no attribute 'get'"
        [] p.t = "str" -> "'str' object has no attribute 'get'")
ReadTimeout == Exc("ReadTimeout", "Read timed out. (read timeout=60)")
ConnectionError == Exc("ConnectionError", "Connection aborted.")
JSONDecodeError == Exc("JSONDecodeError", "Expecting value: line 1 column 1 (char 0)")

\* A local that has not been assigned.
Unset == [t |-> "unset"]

\* ---------------------------------------------------------- input domains
\* Inbound request bodies: unparseable text, JSON that is no object (null,
\* an array), an object without `query`, objects with `query` (one with a
\* second key the handler does not interpret).
InboundBodies ==
  { Garbage,
    Text(JNull),
    Text(JArr(<<>>)),
    Text(JObj(<<>>)),
    Text(JObj(Entry("query", JStr("{ pools { id } }")))),
    Text(JObj(Merge(Entry("query", JStr("{ tokens { id } }")),
                    Entry("operationName", JStr("T"))))) }

\* Upstream response bodies: unparseable text and two JSON documents.
UpstreamBodies ==
  { Garbage,
    Text(JObj(Entry("data", JObj(Entry("pools", JArr(<<>>)))))),
    Text(JObj(Entry("errors", JStr("bad query")))) }

\* Upstream status codes.
UpstreamStatuses == {200, 400, 503}

\* ------------------------------------------------------------- the handler
\* The outcome of a statement: it raises x, or it yields v.
Raise(x) == [raised |-> TRUE, exc |-> x]
Value(v) == [raised |-> FALSE, val |-> v]

\* Mutant of Get: .get('query', '') gives the empty string for an absent key.
GetOrEmpty(d, key) == IF key \in DOMAIN d.v THEN d.v[key] ELSE PyStr("")

\* dict.get(key): the value under key, None when the key is absent.
Get(d, key) == IF key \in DOMAIN d.v THEN d.v[key] ELSE PyNone

\* Mutant of ExtractQuery: (request.get_json(silent=True) or {}).get('query')
\* raises on nothing and gives None for a body that is no JSON object.
ExtractQuerySilent(b) ==
  IF b.kind = "garbage"
    THEN Value(PyNone)
    ELSE LET json == loads(b.value) IN
         IF json.t # "dict" THEN Value(PyNone) ELSE Value(Get(json, "query"))

\* line 13: request.json.get('query') on the inbound body b.  request.json
\* raises on a body that is no JSON; .get raises on a parsed value that is
\* no dict.
ExtractQuery(b) ==
  IF b.kind = "garbage"
    THEN Raise(BadRequest)
    ELSE LET json == loads(b.value) IN
         IF json.t # "dict"
           THEN Raise(AttributeError(json))
           ELSE Value(Get(json, "query"))

\* Mutant of Payload: the payload carries a second key.
PayloadWithVariables(q) == PyDict(Merge(Entry("query", q), Entry("variables", PyNone)))

\* line 16: the json= argument, {'query': query}.
Payload(q) == PyDict(Entry("query", q))

\* The record of one outbound requests.post(url, json=payload, timeout=t).
Call(url, payload, t) == [url |-> url, json |-> dumps(payload), timeout |-> t]

\* Mutant of jsonify: jsonify(data=x) wraps x in an object.
jsonifyKeyword(x) == dumps(PyDict(Entry("data", x)))

\* jsonify(x): the response body carrying x.
jsonify(x) == dumps(x)

\* What a handler invocation returns: (body, status).
Return(b, status) == [body |-> b, status |-> status]

\* Mutant of ResponseJson: a body that is no JSON is read as None.
ResponseJsonSilent(resp) ==
  IF resp.text.kind = "garbage" THEN Value(PyNone) ELSE Value(loads(resp.text.value))

\* response.json(): the parsed body; raises on text that is no JSON.
ResponseJson(resp) ==
  IF resp.text.kind = "garbage"
    THEN Raise(JSONDecodeError)
    ELSE Value(loads(resp.text.value))

\* Mutant of MapResponse: the upstream status is forwarded with the fixed error.
MapResponseForward(resp) ==
  IF resp.status_code = OK
    THEN IF resp.text.kind = "garbage"
           THEN Raise(JSONDecodeError)
           ELSE Value(Return(dumps(loads(resp.text.value)), OK))
    ELSE Value(Return(dumps(PyDict(Entry("error", PyStr("GraphQL query failed")))),
                      resp.status_code))

\* lines 19-23: on status 200 parse the upstream body and return it; on any
\* other status return the fixed error with 500.
MapResponse(resp) ==
  IF resp.status_code = OK
    THEN LET data == ResponseJson(resp) IN
         IF data.raised
           THEN data
           ELSE Value(Return(jsonify(data.val), OK))
    ELSE Value(Return(jsonify(PyDict(Entry("error", PyStr("GraphQL query failed")))),
                      SERVER_ERROR))

\* Mutant of Caught: `except requests.RequestException` catches less.
CaughtRequestException(x) == x.type \in {"ReadTimeout", "ConnectionError"}

\* line 24: `except Exception` catches every class derived from Exception.
Caught(x) ==
  x.type \in {"BadRequest", "AttributeError", "ReadTimeout", "ConnectionError",
              "JSONDecodeError"}

\* line 25: jsonify({'error': str(e)}), 500.
MapException(x) ==
  Return(jsonify(PyDict(Entry("error", PyStr(str(x))))), SERVER_ERROR)

Init ==
  /\ graphql_url = URL
  /\ pc = [r \in Requests |-> "idle"]
  /\ body = [r \in Requests |-> Unset]
  /\ query = [r \in Requests |-> Unset]
  /\ sent = [r \in Requests |-> <<>>]
  /\ idle = [r \in Requests |-> 0]
  /\ response = [r \in Requests |-> Unset]
  /\ e = [r \in Requests |-> Unset]
  /\ result = [r \in Requests |-> Unset]

\* The runtime dispatches an inbound POST /graphql-query to the handler.
Dispatch(r) ==
  /\ pc[r] = "idle"
  /\ \E b \in InboundBodies : body' = [body EXCEPT ![r] = b]
  /\ pc' = [pc EXCEPT ![r] = "get_query"]
  /\ UNCHANGED <<graphql_url, query, sent, idle, response, e, result>>

\* Mutant of GetQuery: `query` is a module global, bound for every invocation.
GetQueryGlobal(r) ==
  /\ pc[r] = "get_query"
  /\ LET got == ExtractQuery(body[r]) IN
       IF got.raised
         THEN /\ e' = [e EXCEPT ![r] = got.exc]
              /\ pc' = [pc EXCEPT ![r] = "except"]
              /\ UNCHANGED query
         ELSE /\ query' = [x \in Requests |-> got.val]
              /\ pc' = [pc EXCEPT ![r] = "post"]
              /\ UNCHANGED e
  /\ UNCHANGED <<graphql_url, body, sent, idle, response, result>>

\* line 13: query = request.json.get('query'), or control passes to the
\* except clause.
GetQuery(r) ==
  /\ pc[r] = "get_query"
  /\ LET got == ExtractQuery(body[r]) IN
       IF got.raised
         THEN /\ e' = [e EXCEPT ![r] = got.exc]
              /\ pc' = [pc EXCEPT ![r] = "except"]
              /\ UNCHANGED query
         ELSE /\ query' = [query EXCEPT ![r] = got.val]
              /\ pc' = [pc EXCEPT ![r] = "post"]
              /\ UNCHANGED e
  /\ UNCHANGED <<graphql_url, body, sent, idle, response, result>>

\* line 16: requests.post(graphql_url, json={'query': query}, timeout=60) is
\* issued; the invocation blocks until the upstream or the timer acts.
Post(r) ==
  /\ pc[r] = "post"
  /\ sent' = [sent EXCEPT ![r] = Append(@, Call(graphql_url, Payload(query[r]), TIMEOUT))]
  /\ idle' = [idle EXCEPT ![r] = 0]
  /\ pc' = [pc EXCEPT ![r] = "calling"]
  /\ UNCHANGED <<graphql_url, body, query, response, e, result>>

\* The clock: Quantum more seconds pass without a byte from the upstream.
\* The timer of line 16 stops at TIMEOUT, where the call raises.
Tick(r) ==
  /\ pc[r] = "calling"
  /\ idle[r] < TIMEOUT
  /\ idle' = [idle EXCEPT ![r] = IF @ + Quantum < TIMEOUT THEN @ + Quantum ELSE TIMEOUT]
  /\ UNCHANGED <<graphql_url, pc, body, query, sent, response, e, result>>

\* The upstream sends part of its response: the socket has read something,
\* so the timer of line 16 (which bounds each wait for bytes) starts again.
UpstreamData(r) ==
  /\ pc[r] = "calling"
  /\ 0 < idle[r] /\ idle[r] < TIMEOUT
  /\ idle' = [idle EXCEPT ![r] = 0]
  /\ UNCHANGED <<graphql_url, pc, body, query, sent, response, e, result>>

\* The upstream completes its response before the timer runs out:
\* requests.post returns, `response` is bound and the timer is gone.
UpstreamRespond(r) ==
  /\ pc[r] = "calling"
  /\ idle[r] < TIMEOUT
  /\ \E s \in UpstreamStatuses, t \in UpstreamBodies :
       response' = [response EXCEPT ![r] = [status_code |-> s, text |-> t]]
  /\ pc' = [pc EXCEPT ![r] = "check"]
  /\ idle' = [idle EXCEPT ![r] = 0]
  /\ UNCHANGED <<graphql_url, body, query, sent, e, result>>

\* The connection fails: requests.post raises ConnectionError.
UpstreamFail(r) ==
  /\ pc[r] = "calling"
  /\ idle[r] < TIMEOUT
  /\ e' = [e EXCEPT ![r] = ConnectionError]
  /\ pc' = [pc EXCEPT ![r] = "except"]
  /\ idle' = [idle EXCEPT ![r] = 0]
  /\ UNCHANGED <<graphql_url, body, query, sent, response, result>>

\* Mutant of Timeout: the call is made without timeout= and never raises one.
TimeoutNever(r) ==
  /\ FALSE
  /\ UNCHANGED vars

\* No byte for TIMEOUT seconds: requests.post raises a timeout.
Timeout(r) ==
  /\ pc[r] = "calling"
  /\ idle[r] = TIMEOUT
  /\ e' = [e EXCEPT ![r] = ReadTimeout]
  /\ pc' = [pc EXCEPT ![r] = "except"]
  /\ idle' = [idle EXCEPT ![r] = 0]
  /\ UNCHANGED <<graphql_url, body, query, sent, response, result>>

\* lines 19-23: the branch on response.status_code, returning to the caller
\* or passing control to the except clause.
CheckStatus(r) ==
  /\ pc[r] = "check"
  /\ LET out == MapResponse(response[r]) IN
       IF out.raised
         THEN /\ e' = [e EXCEPT ![r] = out.exc]
              /\ pc' = [pc EXCEPT ![r] = "except"]
              /\ UNCHANGED result
         ELSE /\ result' = [result EXCEPT ![r] = out.val]
              /\ pc' = [pc EXCEPT ![r] = "done"]
              /\ UNCHANGED e
  /\ UNCHANGED <<graphql_url, body, query, sent, idle, response>>

\* Mutant of Except: a failed outbound call is tried once more.
ExceptRetry(r) ==
  /\ pc[r] = "except"
  /\ IF e[r].type \in {"ReadTimeout", "ConnectionError"} /\ Len(sent[r]) < 2
       THEN /\ pc' = [pc EXCEPT ![r] = "post"]
            /\ UNCHANGED result
       ELSE /\ result' = [result EXCEPT ![r] = MapException(e[r])]
            /\ pc' = [pc EXCEPT ![r] = "done"]
  /\ UNCHANGED <<graphql_url, body, query, sent, idle, response, e>>

\* lines 24-25: except Exception as e: return jsonify({'error': str(e)}), 500.
\* An exception the clause does not catch leaves the handler.
Except(r) ==
  /\ pc[r] = "except"
  /\ IF Caught(e[r])
       THEN /\ result' = [result EXCEPT ![r] = MapException(e[r])]
            /\ pc' = [pc EXCEPT ![r] = "done"]
       ELSE /\ pc' = [pc EXCEPT ![r] = "escaped"]
            /\ UNCHANGED result
  /\ UNCHANGED <<graphql_url, body, query, sent, idle, response, e>>

\* One step of the handler invocation serving request r.
graphql_query(r) ==
  \/ GetQuery(r)
  \/ Post(r)
  \/ CheckStatus(r)
  \/ Except(r)

\* One step of the world around the handler for request r.
Environment(r) ==
  \/ Dispatch(r)
  \/ Tick(r)
  \/ UpstreamData(r)
  \/ UpstreamRespond(r)
  \/ UpstreamFail(r)
  \/ Timeout(r)

Next == \E r \in Requests : graphql_query(r) \/ Environment(r)

Spec == Init /\ [][Next]_vars

\* The requests in Observed alone, the others never arriving.
NextObserved == \E r \in Observed : graphql_query(r) \/ Environment(r)

\* The clock advances, a due timeout is raised and a handler that can run
\* does run; the upstream is under no obligation.
Fairness ==
  \A r \in Observed :
    /\ WF_vars(Tick(r))
    /\ WF_vars(Timeout(r))
    /\ WF_vars(graphql_query(r))

FairSpec == Init /\ [][NextObserved]_vars /\ Fairness

\* ================================================================ claims
Done(r) == pc[r] = "done"
Dispatched(r) == body[r] # Unset
Responded(r) == response[r] # Unset
Failed(r) == e[r] # Unset

\* The inbound body of r parsed to a JSON object.
IsObject(r) == Dispatched(r) /\ body[r].kind = "json" /\ body[r].value.t = "object"
HasQuery(r) == IsObject(r) /\ "query" \in DOMAIN body[r].value.v

\* The two shapes of the error response, written out as JSON.
ErrorBody(msg) == [t |-> "object", v |-> [error |-> [t |-> "string", v |-> msg]]]
FailedBody == ErrorBody("GraphQL query failed")
QueryPayload(j) == [t |-> "object", v |-> [query |-> j]]

\* C1: when the upstream call of a request completed with status 200 and a
\* JSON body B, the handler's response is B itself with status 200.
C1_Passthrough ==
  \A r \in Requests :
    (Done(r) /\ Responded(r) /\ response[r].status_code = 200
       /\ response[r].text.kind = "json")
      => result[r] = [body |-> response[r].text.value, status |-> 200]

C1_Witness ==
  \E r \in Requests :
    /\ Done(r) /\ Responded(r) /\ response[r].status_code = 200
    /\ response[r].text.kind = "json"
    /\ result[r].body =
         [t |-> "object",
          v |-> [data |-> [t |-> "object",
                           v |-> [pools |-> [t |-> "array", v |-> <<>>]]]]]

\* C2: when the upstream call completed with a status other than 200, the
\* response is {"error": "GraphQL query failed"} with status 500, whatever
\* the upstream status and body were.
C2_UpstreamRejected ==
  \A r \in Requests :
    (Done(r) /\ Responded(r) /\ response[r].status_code # 200)
      => result[r] = [body |-> FailedBody, status |-> 500]

C2_Witness ==
  \E r \in Requests :
    /\ Done(r) /\ Responded(r) /\ response[r].status_code = 503
    /\ response[r].text.kind = "json"
    /\ result[r] = [body |-> FailedBody, status |-> 500]

\* C3: for an inbound body with a `query` field of value q, every outbound
\* call of the request goes to the fixed URL with a JSON payload whose only
\* key is `query` and whose value is q.
C3_QueryForwarded ==
  \A r \in Requests :
    HasQuery(r) =>
      \A i \in DOMAIN sent[r] :
        /\ sent[r][i].url = URL
        /\ sent[r][i].json.t = "object"
        /\ DOMAIN sent[r][i].json.v = {"query"}
        /\ sent[r][i].json.v.query = body[r].value.v.query

C3_Witness ==
  \E r \in Requests :
    /\ HasQuery(r)
    /\ "operationName" \in DOMAIN body[r].value.v
    /\ Len(sent[r]) = 1
    /\ sent[r][1].json = QueryPayload([t |-> "string", v |-> "{ tokens { id } }"])

\* C4: no failure leaves the handler: every exception raised while handling
\* a request ends in the response {"error": str(e)} with status 500.
C4_AllCaught ==
  \A r \in Requests :
    /\ pc[r] # "escaped"
    /\ (Done(r) /\ Failed(r)) => result[r] = [body |-> ErrorBody(e[r].msg), status |-> 500]

C4_Witness ==
  \E r \in Requests :
    /\ Done(r) /\ Failed(r) /\ e[r].type = "ConnectionError"
    /\ result[r] = [body |-> ErrorBody("Connection aborted."), status |-> 500]

C6_MissingQuery ==
  \A r \in Requests :
    (IsObject(r) /\ ~HasQuery(r)) =>
      /\ pc[r] # "escaped"
      /\ pc[r] \notin {"idle", "get_query", "post"} =>
           /\ Len(sent[r]) = 1
           /\ sent[r][1].json = QueryPayload([t |-> "null"])
      /\ Done(r) =>
           result[r] =
             IF Responded(r) /\ response[r].status_code = 200
                  /\ response[r].text.kind = "json"
               THEN [body |-> response[r].text.value, status |-> 200]
             ELSE IF Responded(r) /\ response[r].status_code # 200
               THEN [body |-> FailedBody, status |-> 500]
             ELSE [body |-> ErrorBody(e[r].msg), status |-> 500]

C6_Witness ==
  \E r \in Requests :
    /\ IsObject(r) /\ ~HasQuery(r) /\ Done(r)
    /\ sent[r][1].json = QueryPayload([t |-> "null"])
    /\ result[r].status = 200

\* C7 as stated: every request that has been answered had exactly one
\* outbound call issued for it, whatever its body.
C7_ExactlyOne ==
  \A r \in Requests : Done(r) => Len(sent[r]) = 1

\* C7 as amended: a request never has more than one outbound call; an
\* answered request has exactly one when extraction of `query` succeeded
\* (also when that call failed: it is not retried) and none when it raised.
C7_AtMostOne ==
  \A r \in Requests :
    /\ Len(sent[r]) <= 1
    /\ Done(r) => (Len(sent[r]) = IF IsObject(r) THEN 1 ELSE 0)

C7_Witness ==
  \E r \in Requests :
    /\ Done(r) /\ Failed(r) /\ e[r].type \in {"ConnectionError", "ReadTimeout"}
    /\ Len(sent[r]) = 1

\* C8: with several requests in flight, the outbound call of a request
\* carries the query of its own body, its response is a function of its own
\* body and of the outcome of its own call, and the upstream URL stays what
\* it was.
C8_Independent ==
  /\ graphql_url = URL
  /\ \A r \in Requests :
       /\ \A i \in DOMAIN sent[r] :
            /\ IsObject(r)
            /\ sent[r][i] =
                 [url |-> URL,
                  json |-> QueryPayload(IF HasQuery(r) THEN body[r].value.v.query
                                        ELSE [t |-> "null"]),
                  timeout |-> 60]
       /\ Done(r) =>
            result[r] =
              IF Dispatched(r) /\ body[r].kind = "garbage"
                THEN [body |-> ErrorBody("400 Bad Request: Failed to decode JSON object"),
                      status |-> 500]
              ELSE IF ~IsObject(r)
                THEN [body |-> ErrorBody(IF body[r].value.t = "null"
                                           THEN "'NoneType' object has no attribute 'get'"
                                           ELSE "'list' object has no attribute 'get'"),
                      status |-> 500]
              ELSE IF ~Responded(r)
                THEN [body |-> ErrorBody(e[r].msg), status |-> 500]
              ELSE IF response[r].status_code # 200
                THEN [body |-> FailedBody, status |-> 500]
              ELSE IF response[r].text.kind = "json"
                THEN [body |-> response[r].text.value, status |-> 200]
              ELSE [body |-> ErrorBody("Expecting value: line 1 column 1 (char 0)"),
                    status |-> 500]

\* Two requests with different queries are in their outbound calls at once.
C8_Witness ==
  \E r1, r2 \in Requests :
    /\ r1 # r2
    /\ pc[r1] = "calling" /\ pc[r2] = "calling"
    /\ HasQuery(r1) /\ HasQuery(r2)
    /\ sent[r1][1].json # sent[r2][1].json

\* C9: when the upstream call completed with status 200 and a body that is
\* no JSON, the response is {"error": str(parse exception)} with status 500,
\* not a 200 and not the fixed message.
C9_ParseFailure ==
  \A r \in Requests :
    (Done(r) /\ Responded(r) /\ response[r].status_code = 200
       /\ response[r].text.kind = "garbage")
      => /\ result[r] = [body |-> ErrorBody("Expecting value: line 1 column 1 (char 0)"),
                         status |-> 500]
         /\ result[r].body # FailedBody
         /\ e[r].type = "JSONDecodeError"

C9_Witness ==
  \E r \in Requests :
    /\ Done(r) /\ Responded(r) /\ response[r].status_code = 200
    /\ response[r].text.kind = "garbage"
    /\ result[r].status = 500

\* C10: when extraction of `query` raises (the body is no JSON, or JSON that
\* is no object) no outbound call is issued and the response is an `error`
\* body with status 500; a call is issued only once `query` is bound.
C10_ExtractFirst ==
  \A r \in Requests :
    /\ (Dispatched(r) /\ ~IsObject(r)) =>
         /\ sent[r] = <<>>
         /\ Done(r) =>
              /\ result[r].status = 500
              /\ result[r].body.t = "object"
              /\ DOMAIN result[r].body.v = {"error"}
    /\ sent[r] # <<>> => query[r] # Unset

C10_Witness ==
  \E r \in Requests :
    /\ Dispatched(r) /\ body[r] = [kind |-> "json", value |-> [t |-> "null"]]
    /\ Done(r) /\ sent[r] = <<>>
    /\ result[r] = [body |-> ErrorBody("'NoneType' object has no attribute 'get'"),
                    status |-> 500]

====
